---- MODULE Spec2Model ----
\* xmlstream.cpp: streaming conversion of an XML token stream into records,
\* written as JSON lines, as a MySQL dump, or as rows of an SQLite table.
\* The model follows main(): option checks, opening of input and output,
\* the preamble, the record-tag check, the streaming loop, the final flush,
\* the postamble and the exit, with SIGINT arriving at any moment (Spec).
\* What the loop does with one record, from the expanded subtree through
\* the mapper and dump to the bytes written, and sql_escape, are followed
\* on sample records (RecordSpec).
EXTENDS Integers, Sequences, FiniteSets, TLC

\* ------------------------------------------------------------------ bounds
\* Largest number of tokens between the root element's start and end tags.
MaxInner == 5
\* Largest value of --batch that is explored.
MaxBatch == 2
\* Largest number of SQLite failures one run is made to meet.
MaxFail == 1
\* Largest number of children of a record element.
MaxKids == 2
\* Largest number of bytes of an argument of sql_escape.
MaxArg == 3

\* ---------------------------------------------------- libxml2 reader constant
\* xmlReaderTypes: the node type of an element's start tag.
XML_READER_TYPE_ELEMENT == 1

\* ------------------------------------------------------------ token stream
\* The nodes xmlTextReaderRead() reports, in document order. An empty element
\* (<host/>) is reported as one ELEMENT node with no END_ELEMENT node.
Tokens == {"<host>", "<host/>", "<x>", "</host>", "</x>", "#text"}

\* xmlTextReaderNodeType: 1 for a start tag, 15 for an end tag
\* (XML_READER_TYPE_END_ELEMENT), 3 for text (XML_READER_TYPE_TEXT).
NodeType(tok) ==
    IF tok \in {"<host>", "<host/>", "<x>"} THEN XML_READER_TYPE_ELEMENT
    ELSE IF tok \in {"</host>", "</x>"} THEN 15
    ELSE 3

ConstName(tok) ==
    IF tok \in {"<host>", "<host/>", "</host>"} THEN "host"
    ELSE IF tok \in {"<x>", "</x>"} THEN "x"
    ELSE "#text"

IsEmptyElement(tok) == tok = "<host/>"

IsOpen(tok) == NodeType(tok) = XML_READER_TYPE_ELEMENT /\ ~IsEmptyElement(tok)
IsClose(tok) == NodeType(tok) = 15

\* The names of the elements open after the tokens of s, innermost last;
\* <<"!">> when s closes an element that is not the innermost open one.
RECURSIVE OpenStack(_)
OpenStack(s) ==
    IF s = <<>> THEN <<>>
    ELSE LET st == OpenStack(SubSeq(s, 1, Len(s) - 1))
             tok == s[Len(s)]
         IN  IF st = <<"!">> THEN st
             ELSE IF IsOpen(tok) THEN Append(st, ConstName(tok))
             ELSE IF IsClose(tok)
                  THEN IF st # <<>> /\ st[Len(st)] = ConstName(tok)
                       THEN SubSeq(st, 1, Len(st) - 1)
                       ELSE <<"!">>
             ELSE st

WellNested(s) == OpenStack(s) = <<>>

\* The content of the root element: every well-nested token sequence of at
\* most MaxInner tokens.
Inners ==
    UNION { { s \in [1..n -> Tokens] : WellNested(s) } : n \in 0..MaxInner }

\* A document is one root element <x> around its content.
Docs == { <<"<x>">> \o s \o <<"</x>">> : s \in Inners }

\* The position of the END_ELEMENT node that closes the element opened at p.
RECURSIVE MatchFrom(_, _, _)
MatchFrom(d, q, depth) ==
    IF q > Len(d) THEN Len(d)
    ELSE IF IsOpen(d[q]) THEN MatchFrom(d, q + 1, depth + 1)
    ELSE IF IsClose(d[q])
         THEN IF depth = 1 THEN q ELSE MatchFrom(d, q + 1, depth - 1)
    ELSE MatchFrom(d, q + 1, depth)

\* The last position of the subtree rooted at p.
SubtreeEnd(d, p) == IF IsOpen(d[p]) THEN MatchFrom(d, p + 1, 1) ELSE p

\* ------------------------------------------------------------------ options
Modes == {"generic", "nmap", "tree"}
RecordTags == {"", "host"}
Formats == {"jsonl", "mysql-sql", "sqlite", "csv"}

\* Line 419: --batch N is stored as std::max(1, atoi(optarg)).
ParseBatch(n) == IF n > 1 THEN n ELSE 1

\* The command lines explored. The SQLite options are read only by a run
\* with --format sqlite, and --batch only once --sqlite-db is given, so they
\* vary there only. The batch sizes are those of --batch -1 .. MaxBatch (the
\* default of 500 rows is beyond the documents explored). --pretty changes
\* the text of a record only; the run of main() is explored without it, and
\* the text of a record is explored with and without it (RecordSpec).
Options ==
    { o \in [ mode : Modes, record_tag : RecordTags, format : Formats,
              sqlite_batch : { ParseBatch(n) : n \in -1..MaxBatch },
              sqlite_db : {"", "scan.db"}, pretty : {FALSE} ] :
        /\ o.format # "sqlite" => (o.sqlite_batch = 1 /\ o.sqlite_db = "")
        /\ o.sqlite_db = "" => o.sqlite_batch = 1 }

VARIABLES
    WITH_SQLITE,      \* the build: compiled with -DWITH_SQLITE or not
    opt,              \* struct Options after getopt_long
    pc,               \* the statement of main() that runs next
    g_stop_requested, \* the flag sigint_handler sets
    doc,              \* the nodes the reader will report
    pos,              \* the reader's current node (0: none read yet)
    ret,              \* the loop variable ret
    out,              \* what has been written to *pout
    sqlite_buf,       \* std::vector sqlite_buf
    sdb,              \* the SQLite database: committed rows, open transaction
    exit_code,        \* what main() returned (-1: still running)
    dispatched,       \* history: the records mapped and passed to the sink
    flushes,          \* history: every call of sqlite_batch_insert
    reads,            \* history: calls of xmlTextReaderRead and xmlTextReaderNext
    stop_at,          \* history: Len(dispatched) when SIGINT arrived (-1: none)
    stop_pc,          \* history: pc when SIGINT arrived
    \* One record followed through lines 523-550 (RecordSpec):
    rpc,              \* the statement of the record's path that runs next
    node,             \* the subtree xmlTextReaderExpand returned
    json,             \* the variable j of line 525
    json_str,         \* line 533
    written,          \* the bytes the record's writer put on *pout
    arg,              \* the argument of one call of sql_escape
    escaped           \* what that call returned

\* The variables of one record's path.
recvars == << rpc, node, json, json_str, written, arg, escaped >>

vars == << WITH_SQLITE, opt, pc, g_stop_requested, doc, pos, ret, out,
           sqlite_buf, sdb, exit_code, dispatched, flushes, reads,
           stop_at, stop_pc, recvars >>

to_jsonl == opt.format = "jsonl"
to_mysql == opt.format = "mysql-sql"
to_sqlite == WITH_SQLITE /\ opt.format = "sqlite"

EmptyDb == [ committed |-> <<>>, txn |-> <<>>, in_txn |-> FALSE ]

\* A build without SQLite has no SQLite options and differs from a build
\* with SQLite only in refusing --format sqlite, so it is explored for that
\* format only.
\* No record is being followed.
NoNode == [ type |-> "none" ]
NoJson == [ t |-> "none" ]
NoRecord ==
    /\ rpc = "idle"
    /\ node = NoNode
    /\ json = NoJson
    /\ json_str = ""
    /\ written = <<>>
    /\ arg = <<>>
    /\ escaped = <<>>

Init ==
    /\ opt \in Options
    /\ WITH_SQLITE \in (IF opt.format = "sqlite" /\ opt.sqlite_db = ""
                        THEN BOOLEAN ELSE {TRUE})
    /\ pc = "check_args"
    /\ g_stop_requested = 0
    /\ doc = <<>>
    /\ pos = 0
    /\ ret = 1
    /\ out = <<>>
    /\ sqlite_buf = <<>>
    /\ sdb = EmptyDb
    /\ exit_code = -1
    /\ dispatched = <<>>
    /\ flushes = <<>>
    /\ reads = 0
    /\ stop_at = -1
    /\ stop_pc = "none"
    /\ NoRecord

\* return N from main().
Return(code) ==
    /\ pc' = "exit"
    /\ exit_code' = code

\* ------------------------------------------------------------------ SIGINT
sigint_handler ==
    /\ pc # "exit"
    /\ g_stop_requested = 0
    /\ g_stop_requested' = 1
    /\ stop_at' = Len(dispatched)
    /\ stop_pc' = pc
    /\ UNCHANGED << WITH_SQLITE, opt, pc, doc, pos, ret, out, sqlite_buf, sdb,
                    exit_code, dispatched, flushes, reads >>
    /\ UNCHANGED recvars

\* ------------------------------------------------- option checks (432-444)
CheckArgs ==
    /\ pc = "check_args"
    /\ IF opt.mode # "generic" /\ opt.mode # "nmap"
       THEN /\ Return(2)
            /\ UNCHANGED opt
       ELSE /\ opt' = IF opt.mode = "nmap" /\ opt.record_tag = ""
                      THEN [opt EXCEPT !.record_tag = "host"]
                      ELSE opt
            /\ IF ~WITH_SQLITE /\ opt.format = "sqlite"
               THEN Return(3)
               ELSE pc' = "open_input" /\ UNCHANGED exit_code
    /\ UNCHANGED << WITH_SQLITE, g_stop_requested, doc, pos, ret, out,
                    sqlite_buf, sdb, dispatched, flushes, reads,
                    stop_at, stop_pc >>
    /\ UNCHANGED recvars

\* ---------------------------------------------- input and output (446-501)
\* xmlReaderForFd / xmlReaderForFile: the reader is created over some
\* document, or is NULL.
OpenInput ==
    /\ pc = "open_input"
    /\ \/ \E d \in Docs :
            /\ doc' = d
            /\ pc' = "open_output"
            /\ UNCHANGED exit_code
       \/ /\ Return(4)
          /\ UNCHANGED doc
    /\ UNCHANGED << WITH_SQLITE, opt, g_stop_requested, pos, ret, out,
                    sqlite_buf, sdb, dispatched, flushes, reads,
                    stop_at, stop_pc >>
    /\ UNCHANGED recvars

\* The output file (jsonl, mysql-sql) or the database (sqlite) is opened; the
\* steps that can fail are fout.open (5), a missing --sqlite-db (6),
\* sqlite3_open (7) and sqlite_ensure_schema (8).
OpenOutput ==
    /\ pc = "open_output"
    /\ \/ /\ to_sqlite => opt.sqlite_db # ""
          /\ pc' = "preamble"
          /\ UNCHANGED exit_code
       \/ /\ to_jsonl \/ to_mysql
          /\ Return(5)
       \/ /\ to_sqlite
          /\ IF opt.sqlite_db = "" THEN Return(6)
             ELSE \E code \in {7, 8} : Return(code)
    /\ UNCHANGED << WITH_SQLITE, opt, g_stop_requested, doc, pos, ret, out,
                    sqlite_buf, sdb, dispatched, flushes, reads,
                    stop_at, stop_pc >>
    /\ UNCHANGED recvars

\* What the three writers put on *pout.
Preamble == [ kind |-> "preamble", tag |-> "", rec |-> 0 ]
Postamble == [ kind |-> "postamble", tag |-> "", rec |-> 0 ]
Insert(tag_val, rec) == [ kind |-> "insert", tag |-> tag_val, rec |-> rec ]
Line(tag_val, rec) == [ kind |-> "line", tag |-> tag_val, rec |-> rec ]

\* ------------------------------------------------------ preamble (503-505)
WritePreamble ==
    /\ pc = "preamble"
    /\ out' = IF to_mysql THEN Append(out, Preamble) ELSE out
    /\ pc' = "check_tag"
    /\ UNCHANGED << WITH_SQLITE, opt, g_stop_requested, doc, pos, ret,
                    sqlite_buf, sdb, exit_code, dispatched, flushes, reads,
                    stop_at, stop_pc >>
    /\ UNCHANGED recvars

\* ---------------------------------------------- record-tag check (507-512)
CheckRecordTag ==
    /\ pc = "check_tag"
    /\ IF opt.record_tag = ""
       THEN Return(9)
       ELSE pc' = "first_read" /\ UNCHANGED exit_code
    /\ UNCHANGED << WITH_SQLITE, opt, g_stop_requested, doc, pos, ret, out,
                    sqlite_buf, sdb, dispatched, flushes, reads,
                    stop_at, stop_pc >>
    /\ UNCHANGED recvars

\* ------------------------------------------------------------- the reader
\* xmlTextReaderRead from node p: the next node in document order (1), the
\* end of the document (0), or a parse error (-1) when the parser meets
\* markup it cannot recover from (parse_ok = FALSE).

\* Mutant of ReadPos: the reader stays on its node.
ReadPos_Stuck(d, p) == IF p >= Len(d) THEN Len(d) + 1 ELSE p

ReadPos(d, p) == IF p >= Len(d) THEN Len(d) + 1 ELSE p + 1
ReadRet(d, p, parse_ok) ==
    IF ~parse_ok THEN -1 ELSE IF p >= Len(d) THEN 0 ELSE 1

\* xmlTextReaderNext from node p: the node after p's subtree.
NextPos(d, p) ==
    IF p = 0 \/ p > Len(d) THEN ReadPos(d, p) ELSE ReadPos(d, SubtreeEnd(d, p))

\* Lines 553-554 after a record at p: xmlTextReaderNext, then
\* xmlTextReaderRead.
AfterRecordPos(d, p) == ReadPos(d, NextPos(d, p))
AfterRecordRet(d, p, parse_ok) == ReadRet(d, NextPos(d, p), parse_ok)

\* --------------------------------------------------- first read (line 515)
FirstRead ==
    /\ pc = "first_read"
    /\ \E parse_ok \in BOOLEAN :
          /\ ret' = ReadRet(doc, pos, parse_ok)
          /\ pos' = IF parse_ok THEN ReadPos(doc, pos) ELSE pos
          /\ reads' = reads + 1
    /\ pc' = "loop_test"
    /\ UNCHANGED << WITH_SQLITE, opt, g_stop_requested, doc, out,
                    sqlite_buf, sdb, exit_code, dispatched, flushes,
                    stop_at, stop_pc >>
    /\ UNCHANGED recvars

\* ---------------------------------------------- loop condition (line 516)
LoopTest ==
    /\ pc = "loop_test"
    /\ pc' = IF ret = 1 /\ g_stop_requested = 0 THEN "loop_body"
             ELSE "final_flush"
    /\ UNCHANGED << WITH_SQLITE, opt, g_stop_requested, doc, pos, ret, out,
                    sqlite_buf, sdb, exit_code, dispatched, flushes, reads,
                    stop_at, stop_pc >>
    /\ UNCHANGED recvars

\* Mutant of AtRecord: once the flag is set, no element counts as a record.
AtRecord_UnlessStopped ==
    /\ g_stop_requested = 0
    /\ pos \in 1..Len(doc)
    /\ NodeType(doc[pos]) = XML_READER_TYPE_ELEMENT
    /\ ConstName(doc[pos]) = opt.record_tag

\* The node under the reader is an element named like the record tag.
AtRecord ==
    /\ pos \in 1..Len(doc)
    /\ NodeType(doc[pos]) = XML_READER_TYPE_ELEMENT
    /\ ConstName(doc[pos]) = opt.record_tag

\* ---------------------------------- loop body, no record here (517-522, 558)
SkipNode ==
    /\ pc = "loop_body"
    /\ ~AtRecord
    /\ \E parse_ok \in BOOLEAN :
          /\ ret' = ReadRet(doc, pos, parse_ok)
          /\ pos' = IF parse_ok THEN ReadPos(doc, pos) ELSE pos
          /\ reads' = reads + 1
    /\ pc' = "loop_test"
    /\ UNCHANGED << WITH_SQLITE, opt, g_stop_requested, doc, out,
                    sqlite_buf, sdb, exit_code, dispatched, flushes,
                    stop_at, stop_pc >>
    /\ UNCHANGED recvars

\* ------------------------------------------------------ SQLite (352-372)
\* How one call of sqlite_batch_insert goes: every call succeeds ("none"),
\* sqlite3_prepare_v2 fails ("prepare"), sqlite3_step fails on row `at`
\* ("step"; SQLite then either keeps the transaction open or rolls it back
\* itself, depending on the error), or COMMIT fails ("commit").
NoFailure == [ kind |-> "none", at |-> 0, rollback |-> FALSE ]

Failed(log) == { i \in 1..Len(log) : log[i].result # "none" }

FlushOutcomes(rows, log) ==
    {NoFailure} \cup
    IF Cardinality(Failed(log)) >= MaxFail THEN {}
    ELSE { [ kind |-> "prepare", at |-> 0, rollback |-> FALSE ],
           [ kind |-> "commit", at |-> 0, rollback |-> FALSE ] }
         \cup { [ kind |-> "step", at |-> i, rollback |-> rb ] :
                  i \in 1..Len(rows), rb \in BOOLEAN }

\* sqlite_batch_insert(db, table, rows) meeting outcome f: the database
\* afterwards, and whether the call threw. BEGIN inside an open transaction
\* is an error, which the code ignores; the transaction stays as it is.
sqlite_batch_insert(db, rows, f) ==
    LET begun == [db EXCEPT !.in_txn = TRUE]
    IN  CASE f.kind = "prepare" ->
               [ db |-> begun, threw |-> TRUE ]
          [] f.kind = "step" ->
               [ db |-> IF f.rollback
                        THEN [begun EXCEPT !.txn = <<>>, !.in_txn = FALSE]
                        ELSE [begun EXCEPT
                                !.txn = @ \o SubSeq(rows, 1, f.at - 1)],
                 threw |-> TRUE ]
          [] f.kind = "commit" ->
               [ db |-> [begun EXCEPT !.txn = @ \o rows], threw |-> FALSE ]
          [] OTHER ->
               [ db |-> [ committed |-> db.committed \o begun.txn \o rows,
                          txn |-> <<>>, in_txn |-> FALSE ],
                 threw |-> FALSE ]

FlushLog(rows, f, where) ==
    [ rows |-> rows, result |-> f.kind, at |-> f.at, where |-> where ]

\* Mutant of FlushDue: the flush waits until the buffer exceeds the batch.
FlushDue_Late(buf, batch) == Len(buf) > batch

\* Line 539: the buffer has reached the batch size.
FlushDue(buf, batch) == Len(buf) >= batch

\* Mutant of Caught: the exception leaves main().
Caught_Never(threw) == ~threw

\* Lines 540-541: what sqlite_batch_insert throws is a std::runtime_error,
\* which the catch clause takes.
Caught(threw) == TRUE

\* ------------------------------------ loop body at a record (517-555)
\* Lines 526-534: the mapper that is used and the tag label of the record.
UsesNmap(tag) == opt.mode = "nmap" /\ tag = "host"
TagVal(tag) == IF UsesNmap(tag) THEN "host" ELSE tag

\* Lines 553-555: skip the subtree, read on, continue.
Advance ==
    /\ \E parse_ok \in BOOLEAN :
          /\ ret' = AfterRecordRet(doc, pos, parse_ok)
          /\ pos' = IF parse_ok THEN AfterRecordPos(doc, pos) ELSE pos
    /\ reads' = reads + 2
    /\ pc' = "loop_test"

\* xmlTextReaderExpand returns the subtree: it is mapped and handed to the
\* sink of the format. The line and the INSERT writers write it and the
\* reader moves on; the SQLite writer appends it to its buffer (line 538).
DispatchRecord ==
    /\ pc = "loop_body"
    /\ AtRecord
    /\ dispatched' = Append(dispatched, pos)
    /\ LET tag_val == TagVal(ConstName(doc[pos]))
       IN  IF to_sqlite
           THEN /\ sqlite_buf' = Append(sqlite_buf, << tag_val, pos >>)
                /\ pc' = "batch_check"
                /\ UNCHANGED << out, pos, ret, reads >>
           ELSE /\ out' = IF to_mysql THEN Append(out, Insert(tag_val, pos))
                          ELSE IF to_jsonl THEN Append(out, Line(tag_val, pos))
                          ELSE out
                /\ Advance
                /\ UNCHANGED sqlite_buf
    /\ UNCHANGED << WITH_SQLITE, opt, g_stop_requested, doc, sdb, exit_code,
                    flushes, stop_at, stop_pc >>
    /\ UNCHANGED recvars

\* Lines 539-555 of the SQLite writer: a full buffer is flushed and cleared,
\* whether the flush threw or not; then the reader moves on.
BatchCheck ==
    /\ pc = "batch_check"
    /\ IF FlushDue(sqlite_buf, opt.sqlite_batch)
       THEN \E f \in FlushOutcomes(sqlite_buf, flushes) :
              LET r == sqlite_batch_insert(sdb, sqlite_buf, f)
              IN  /\ sdb' = r.db
                  /\ flushes' = Append(flushes, FlushLog(sqlite_buf, f, "loop"))
                  /\ IF Caught(r.threw)
                     THEN /\ sqlite_buf' = <<>>
                          /\ Advance
                          /\ UNCHANGED exit_code
                     ELSE /\ Return(134)
                          /\ UNCHANGED << sqlite_buf, pos, ret, reads >>
       ELSE /\ Advance
            /\ UNCHANGED << sqlite_buf, sdb, flushes, exit_code >>
    /\ UNCHANGED << WITH_SQLITE, opt, g_stop_requested, doc, out,
                    dispatched, stop_at, stop_pc >>
    /\ UNCHANGED recvars

\* xmlTextReaderExpand returns NULL (the subtree cannot be parsed): nothing
\* is dispatched, and the reader, now in its error state, answers -1.
ExpandFails ==
    /\ pc = "loop_body"
    /\ AtRecord
    /\ ret' = -1
    /\ reads' = reads + 2
    /\ pc' = "loop_test"
    /\ UNCHANGED << WITH_SQLITE, opt, g_stop_requested, doc, pos, out,
                    sqlite_buf, sdb, exit_code, dispatched, flushes,
                    stop_at, stop_pc >>
    /\ UNCHANGED recvars

\* The record under the reader holds text and no element.
TextOnlyRecord ==
    /\ IsOpen(doc[pos])
    /\ SubtreeEnd(doc, pos) > pos + 1
    /\ \A q \in (pos + 1)..(SubtreeEnd(doc, pos) - 1) : doc[q] = "#text"

\* Lines 529-531 on a record of the generic mapper that has no attribute, no
\* element inside, and text that is not blank: node_to_json maps it to
\* {"tag": "text"}, and line 531 applies operator[] to the string, which
\* throws nlohmann's type_error. Nothing in main() catches it: the program
\* ends in std::terminate, the open transaction is lost.
MapThrows ==
    /\ pc = "loop_body"
    /\ AtRecord
    /\ ~UsesNmap(ConstName(doc[pos]))
    /\ TextOnlyRecord
    /\ Return(134)
    /\ sdb' = [sdb EXCEPT !.txn = <<>>, !.in_txn = FALSE]
    /\ UNCHANGED << WITH_SQLITE, opt, g_stop_requested, doc, pos, ret, out,
                    sqlite_buf, dispatched, flushes, reads, stop_at, stop_pc >>
    /\ UNCHANGED recvars

\* --------------------------------------------------- final flush (561-567)
\* Mutant of FinalFlushDue: only a full buffer is flushed at the end.
FinalFlushDue_FullOnly ==
    /\ g_stop_requested = 0
    /\ to_sqlite
    /\ Len(sqlite_buf) >= opt.sqlite_batch

\* Mutant of FinalFlushDue: the flag is not looked at.
FinalFlushDue_IgnoresStop == to_sqlite /\ sqlite_buf # <<>>

\* Line 562: the condition of the final flush.
FinalFlushDue == g_stop_requested = 0 /\ to_sqlite /\ sqlite_buf # <<>>

FinalFlush ==
    /\ pc = "final_flush"
    /\ IF FinalFlushDue
       THEN \E f \in FlushOutcomes(sqlite_buf, flushes) :
              LET r == sqlite_batch_insert(sdb, sqlite_buf, f)
              IN  /\ sdb' = r.db
                  /\ flushes' = Append(flushes, FlushLog(sqlite_buf, f, "finish"))
                  /\ IF Caught(r.threw)
                     THEN /\ sqlite_buf' = <<>>
                          /\ pc' = "postamble"
                          /\ UNCHANGED exit_code
                     ELSE /\ Return(134)
                          /\ UNCHANGED sqlite_buf
       ELSE /\ pc' = "postamble"
            /\ UNCHANGED << sdb, flushes, sqlite_buf, exit_code >>
    /\ UNCHANGED << WITH_SQLITE, opt, g_stop_requested, doc, pos, ret, out,
                    dispatched, reads, stop_at, stop_pc >>
    /\ UNCHANGED recvars

\* ----------------------------------------------------- postamble (569-571)
WritePostamble ==
    /\ pc = "postamble"
    /\ out' = IF to_mysql THEN Append(out, Postamble) ELSE out
    /\ pc' = "cleanup"
    /\ UNCHANGED << WITH_SQLITE, opt, g_stop_requested, doc, pos, ret,
                    sqlite_buf, sdb, exit_code, dispatched, flushes, reads,
                    stop_at, stop_pc >>
    /\ UNCHANGED recvars

\* ------------------------------------------------- cleanup, exit (573-580)
\* sqlite3_close rolls back a transaction that is still open.
Exit ==
    /\ pc = "cleanup"
    /\ sdb' = [sdb EXCEPT !.txn = <<>>, !.in_txn = FALSE]
    /\ Return(0)
    /\ UNCHANGED << WITH_SQLITE, opt, g_stop_requested, doc, pos, ret, out,
                    sqlite_buf, dispatched, flushes, reads, stop_at, stop_pc >>
    /\ UNCHANGED recvars

Next ==
    \/ sigint_handler
    \/ CheckArgs
    \/ OpenInput
    \/ OpenOutput
    \/ WritePreamble
    \/ CheckRecordTag
    \/ FirstRead
    \/ LoopTest
    \/ SkipNode
    \/ DispatchRecord
    \/ BatchCheck
    \/ ExpandFails
    \/ MapThrows
    \/ FinalFlush
    \/ WritePostamble
    \/ Exit

Spec == Init /\ [][Next]_vars

\* The steps of main(): every step but the delivery of SIGINT.
MainNext ==
    \/ CheckArgs
    \/ OpenInput
    \/ OpenOutput
    \/ WritePreamble
    \/ CheckRecordTag
    \/ FirstRead
    \/ LoopTest
    \/ SkipNode
    \/ DispatchRecord
    \/ BatchCheck
    \/ ExpandFails
    \/ MapThrows
    \/ FinalFlush
    \/ WritePostamble
    \/ Exit

\* The run on a finite input: every call of main() returns (the reader
\* answers every read of a finite document, a flush commits or throws), so
\* main() takes its next step as long as it has one. Nothing makes a SIGINT
\* arrive.
FairSpec == Spec /\ WF_vars(MainNext)

\* ================================================================ records
\* One record on its way from xmlTextReaderExpand to the writer: the mapper
\* (node_to_json or nmap_host_to_obj), dump, and the line or the INSERT
\* statement. Text is kept character by character.

\* --------------------------------------------------------------- strings
\* The i-th character of a std::string.
At(str, i) == SubSeq(str, i, i)

\* The characters with the byte values 32 to 95 and 97 to 126, in the order
\* of their values.
PrintableLow ==
    " !\"#$%&'()*+,-./0123456789:;<=>?@ABCDEFGHIJKLMNOPQRSTUVWXYZ[\\]^_"
PrintableHigh == "abcdefghijklmnopqrstuvwxyz{|}~"

\* The byte value of every character, as a table.
CodeOf ==
    [ c \in { At(PrintableLow, i) : i \in 1..Len(PrintableLow) }
             \cup { At(PrintableHigh, i) : i \in 1..Len(PrintableHigh) }
             \cup { "\t", "\n", "\r" } |->
        IF c = "\t" THEN 9
        ELSE IF c = "\n" THEN 10
        ELSE IF c = "\r" THEN 13
        ELSE IF \E i \in 1..Len(PrintableLow) : At(PrintableLow, i) = c
        THEN 31 + CHOOSE i \in 1..Len(PrintableLow) : At(PrintableLow, i) = c
        ELSE 96 + CHOOSE i \in 1..Len(PrintableHigh) :
                      At(PrintableHigh, i) = c ]

\* The byte value of a character.
Code(c) == CodeOf[c]

\* std::less<std::string>, the order of the keys of a std::map: byte by
\* byte, a proper prefix first.
RECURSIVE StrLess(_, _)
StrLess(a, b) ==
    IF b = "" THEN FALSE
    ELSE IF a = "" THEN TRUE
    ELSE IF At(a, 1) = At(b, 1) THEN StrLess(Tail(a), Tail(b))
    ELSE Code(At(a, 1)) < Code(At(b, 1))

\* ------------------------------------------------------- nlohmann::json
\* A value of nlohmann::json. The members of an object are held by a
\* std::map (nlohmann::json's object_t), that is in ascending order of their
\* keys, each key once.
JNull == [ t |-> "null" ]
JString(str) == [ t |-> "string", s |-> str ]
JArray(elems) == [ t |-> "array", a |-> elems ]
JObject(members) == [ t |-> "object", o |-> members ]

\* What operator[] throws when the value is neither an object nor null.
TypeError == [ t |-> "type_error" ]

\* m[key] = val on a std::map held as a sequence of members.
MapPut(ms, key, val) ==
    IF \E i \in 1..Len(ms) : ms[i].key = key
    THEN [ i \in 1..Len(ms) |->
             IF ms[i].key = key THEN [ key |-> key, val |-> val ] ELSE ms[i] ]
    ELSE LET n == Cardinality({ i \in 1..Len(ms) : StrLess(ms[i].key, key) })
         IN  SubSeq(ms, 1, n) \o << [ key |-> key, val |-> val ] >>
                 \o SubSeq(ms, n + 1, Len(ms))

\* v[key] = val: null becomes an object first; an object gets or replaces
\* the member; any other value throws type_error 305.
Put(v, key, val) ==
    IF v.t = "null" THEN JObject(MapPut(<<>>, key, val))
    ELSE IF v.t = "object" THEN JObject(MapPut(v.o, key, val))
    ELSE TypeError

\* v.contains(key), v.at(key), v.empty(), v.push_back(el).
Contains(v, key) ==
    v.t = "object" /\ \E i \in 1..Len(v.o) : v.o[i].key = key
ValueAt(v, key) ==
    v.o[CHOOSE i \in 1..Len(v.o) : v.o[i].key = key].val
IsEmpty(v) ==
    IF v.t = "null" THEN TRUE
    ELSE IF v.t = "object" THEN v.o = <<>>
    ELSE IF v.t = "array" THEN v.a = <<>>
    ELSE FALSE
PushBack(v, el) ==
    IF v.t = "null" THEN JArray(<< el >>) ELSE JArray(Append(v.a, el))

\* The keys of an object, in the order of the object.
Keys(v) == [ i \in 1..Len(v.o) |-> v.o[i].key ]

\* ------------------------------------------------------------ xmlNode
\* The subtree xmlTextReaderExpand builds: elements (XML_ELEMENT_NODE) with
\* their attributes and children, and text nodes (XML_TEXT_NODE).
Element(name, attrs, kids) ==
    [ type |-> "element", name |-> name, attrs |-> attrs, kids |-> kids ]
Text(content) == [ type |-> "text", content |-> content ]
Attr(name, value) == [ name |-> name, value |-> value ]

\* xmlNodeGetContent: the text of the node and of all its descendants, in
\* document order.
RECURSIVE xmlNodeGetContent(_)
RECURSIVE ContentOf(_)
ContentOf(kids) ==
    IF kids = <<>> THEN ""
    ELSE xmlNodeGetContent(Head(kids)) \o ContentOf(Tail(kids))
xmlNodeGetContent(n) ==
    IF n.type = "text" THEN n.content ELSE ContentOf(n.kids)

\* xmlGetProp: the value of the attribute, or NULL (<<>>) without it.
xmlGetProp(n, name) ==
    IF \E i \in 1..Len(n.attrs) : n.attrs[i].name = name
    THEN << n.attrs[CHOOSE i \in 1..Len(n.attrs) :
                      n.attrs[i].name = name].value >>
    ELSE <<>>

\* The children that are elements, and those of them with a given name.
ElementKids(n) == SelectSeq(n.kids, LAMBDA k : k.type = "element")
KidsNamed(n, name) == SelectSeq(ElementKids(n), LAMBDA k : k.name = name)

\* --------------------------------------------- generic mapper (96-161)
\* Lines 97-104: every attribute becomes the member "@name". (The reader
\* gives every attribute a value node, an empty one for a="", so that
\* xmlNodeListGetString does not return NULL.)
RECURSIVE add_attributes(_, _)
add_attributes(obj, attrs) ==
    IF attrs = <<>> THEN obj
    ELSE add_attributes(
             Put(obj, "@" \o Head(attrs).name, JString(Head(attrs).value)),
             Tail(attrs))

\* Lines 134-137: the text without its leading and trailing " \t\r\n";
\* <<>> when nothing else is in it (npos).
Blank(c) == c \in {" ", "\t", "\r", "\n"}
Trimmed(txt) ==
    LET keep == { i \in 1..Len(txt) : ~Blank(At(txt, i)) }
    IN  IF keep = {} THEN <<>>
        ELSE LET start == CHOOSE i \in keep : \A k \in keep : i <= k
                 end == CHOOSE i \in keep : \A k \in keep : k <= i
             IN  << SubSeq(txt, start, end) >>

\* Mutant of GroupValue: a group of one gives an array too.
GroupValue_AlwaysArray(kv) ==
    JArray([ i \in 1..Len(kv.val) |-> ValueAt(kv.val[i], kv.key) ])

\* Lines 119-126: a group of one gives its value (what the child is mapped
\* to, without the wrapping), a larger group the array of its values.
GroupValue(kv) ==
    IF Len(kv.val) = 1
    THEN ValueAt(kv.val[1], kv.key)
    ELSE JArray([ i \in 1..Len(kv.val) |-> ValueAt(kv.val[i], kv.key) ])

RECURSIVE node_to_json(_)
RECURSIVE GroupKids(_, _)
RECURSIVE MergeGroups(_, _)

\* Lines 109-115: the mapped element children, grouped by name in a
\* std::map, each group in document order.
GroupKids(kids, groups) ==
    IF kids = <<>> THEN groups
    ELSE LET cur == Head(kids)
         IN  IF cur.type = "element"
             THEN LET cj == node_to_json(cur)
                      old == IF \E i \in 1..Len(groups) :
                                   groups[i].key = cur.name
                             THEN ValueAt(JObject(groups), cur.name)
                             ELSE <<>>
                  IN  GroupKids(Tail(kids),
                                MapPut(groups, cur.name, Append(old, cj)))
             ELSE GroupKids(Tail(kids), groups)

\* Lines 118-127: every group becomes a member, in the order of the map.
MergeGroups(groups, obj) ==
    IF groups = <<>> THEN obj
    ELSE LET kv == Head(groups)
         IN  MergeGroups(Tail(groups), Put(obj, kv.key, GroupValue(kv)))

\* Lines 108-145.
children_to_json(n) ==
    LET obj == MergeGroups(GroupKids(n.kids, <<>>), JObject(<<>>))
        trimmed == Trimmed(xmlNodeGetContent(n))
    IN  IF trimmed # <<>> /\ trimmed[1] # ""
        THEN IF ~IsEmpty(obj) THEN Put(obj, "#text", JString(trimmed[1]))
             ELSE JString(trimmed[1])
        ELSE obj

\* Lines 154: every member of kids is put into inner.
RECURSIVE PutAll(_, _)
PutAll(inner, members) ==
    IF members = <<>> THEN inner
    ELSE PutAll(Put(inner, Head(members).key, Head(members).val),
                Tail(members))

\* Lines 147-161.
node_to_json(n) ==
    LET attrs == add_attributes(JObject(<<>>), n.attrs)
        kids == children_to_json(n)
        inner == IF kids.t = "object" THEN PutAll(attrs, kids.o)
                 ELSE IF kids.t # "null"
                      THEN IF IsEmpty(attrs) THEN kids
                           ELSE Put(attrs, "#text", kids)
                 ELSE attrs
    IN  Put(JObject(<<>>), n.name,
            IF inner.t = "null" THEN JObject(<<>>) ELSE inner)

\* Lines 530-531: {"tag": inner} becomes inner with the member "_tag".
Unwrap(wrapped) ==
    IF wrapped.o # <<>>
    THEN Put(wrapped.o[1].val, "_tag", JString(wrapped.o[1].key))
    ELSE wrapped

\* ------------------------------------------ host normalizer (164-291)
\* if (xmlChar* v = xmlGetProp(n, prop)) js[key] = v.
PutPropAs(js, key, n, prop) ==
    LET v == xmlGetProp(n, prop)
    IN  IF v # <<>> THEN Put(js, key, JString(v[1])) ELSE js

\* The same for several attributes in turn, each under its own name.
RECURSIVE PutProps(_, _, _)
PutProps(js, n, props) ==
    IF props = <<>> THEN js
    ELSE PutProps(PutPropAs(js, Head(props), n, Head(props)), n, Tail(props))

\* for (each child) { v = ...; if (!v.empty()) out[key] = v; } over the
\* values computed for the children, in document order.
RECURSIVE PutEach(_, _, _)
PutEach(js, key, vals) ==
    IF vals = <<>> THEN js
    ELSE PutEach(IF IsEmpty(Head(vals)) THEN js ELSE Put(js, key, Head(vals)),
                 key, Tail(vals))

\* Lines 172-179: the state of every status child.
RECURSIVE StatusOf(_, _)
StatusOf(js, kids) ==
    IF kids = <<>> THEN js
    ELSE StatusOf(PutPropAs(js, "status", Head(kids), "state"), Tail(kids))

\* Mutant of AddressesOf: the entries are in reverse order.
AddressesOf_Reversed(host) ==
    LET ks == KidsNamed(host, "address")
    IN  JArray([ i \in 1..Len(ks) |->
                   PutProps(JNull, ks[Len(ks) + 1 - i],
                            << "addr", "addrtype", "vendor" >>) ])

\* Lines 183-193: one entry for every address child.
AddressesOf(host) ==
    LET ks == KidsNamed(host, "address")
    IN  JArray([ i \in 1..Len(ks) |->
                   PutProps(JNull, ks[i], << "addr", "addrtype", "vendor" >>) ])

\* Lines 201-210: one entry for every hostname child of a hostnames child.
HostnamesOf(n) ==
    LET ks == KidsNamed(n, "hostname")
    IN  JArray([ i \in 1..Len(ks) |->
                   PutProps(JNull, ks[i], << "name", "type" >>) ])

\* Lines 249-251, 269-271: a script element.
ScriptOf(c) == PutProps(JNull, c, << "id", "output" >>)

\* Lines 234-246: a service element and its cpe children.
ServiceOf(c) ==
    LET svc == PutProps(JNull, c, << "name", "product", "version",
                                    "extrainfo", "tunnel", "method", "conf" >>)
        ks == KidsNamed(c, "cpe")
        cpes == JArray([ i \in 1..Len(ks) |->
                           JString(xmlNodeGetContent(ks[i])) ])
    IN  IF ~IsEmpty(cpes) THEN Put(svc, "cpe", cpes) ELSE svc

\* Lines 227-254: the children of a port element, in document order.
RECURSIVE PortKids(_, _)
PortKids(pj, kids) ==
    IF kids = <<>> THEN pj
    ELSE LET c == Head(kids)
             nxt == IF c.name = "state"
                    THEN PutProps(pj, c, << "state", "reason" >>)
                    ELSE IF c.name = "service"
                    THEN IF ~IsEmpty(ServiceOf(c))
                         THEN Put(pj, "service", ServiceOf(c))
                         ELSE pj
                    ELSE IF c.name = "script"
                    THEN LET withArr == IF ~Contains(pj, "scripts")
                                        THEN Put(pj, "scripts", JArray(<<>>))
                                        ELSE pj
                         IN  Put(withArr, "scripts",
                                 PushBack(ValueAt(withArr, "scripts"),
                                          ScriptOf(c)))
                    ELSE pj
         IN  PortKids(nxt, Tail(kids))

\* Lines 219-257: one entry for every port child of a ports child.
PortsOf(n) ==
    LET ks == KidsNamed(n, "port")
    IN  JArray([ i \in 1..Len(ks) |->
                   PortKids(PutProps(JNull, ks[i], << "protocol", "portid" >>),
                            ElementKids(ks[i])) ])

\* Lines 266-273: one entry for every script child of a hostscript child.
HostscriptsOf(n) ==
    LET ks == KidsNamed(n, "script")
    IN  JArray([ i \in 1..Len(ks) |-> ScriptOf(ks[i]) ])

\* Lines 164-291.
nmap_host_to_obj(host) ==
    LET kidsOf(name) == KidsNamed(host, name)
        each(name, F(_)) ==
            [ i \in 1..Len(kidsOf(name)) |-> F(kidsOf(name)[i]) ]
        uptimeOf(n) == PutProps(JNull, n, << "seconds", "lastboot" >>)
        o1 == PutPropAs(JObject(<<>>), "starttime", host, "starttime")
        o2 == StatusOf(o1, kidsOf("status"))
        o3 == IF ~IsEmpty(AddressesOf(host))
              THEN Put(o2, "addresses", AddressesOf(host))
              ELSE o2
        o4 == PutEach(o3, "hostnames", each("hostnames", HostnamesOf))
        o5 == PutEach(o4, "ports", each("ports", PortsOf))
        o6 == PutEach(o5, "hostscripts", each("hostscript", HostscriptsOf))
        o7 == PutEach(o6, "uptime", each("uptime", uptimeOf))
    IN  Put(o7, "_tag", JString("host"))

\* ------------------------------------------------------- dump (line 533)
Spaces(n) == [ i \in 1..n |-> " " ]

RECURSIVE Join(_)
Join(strs) == IF strs = <<>> THEN "" ELSE Head(strs) \o Join(Tail(strs))

\* serializer::dump_escaped: the characters JSON does not allow inside a
\* string are written as escape sequences.
EscapeChar(c) ==
    IF c = "\"" THEN "\\\""
    ELSE IF c = "\\" THEN "\\\\"
    ELSE IF c = "\n" THEN "\\n"
    ELSE IF c = "\r" THEN "\\r"
    ELSE IF c = "\t" THEN "\\t"
    ELSE c
Quoted(str) ==
    "\"" \o Join([ i \in 1..Len(str) |-> EscapeChar(At(str, i)) ]) \o "\""

\* serializer::dump(val, pretty_print, ensure_ascii, indent_step,
\* current_indent): indent_step < 0 is the compact form of j.dump(), and
\* indent_step = 2 the form of j.dump(2), with every member and element on
\* a line of its own.
RECURSIVE Dump(_, _, _)
Dump(v, indent_step, current_indent) ==
    LET pretty_print == indent_step >= 0
        new_indent == current_indent + indent_step
        open(bracket) == IF pretty_print THEN bracket \o "\n" ELSE bracket
        sep(last) == IF last THEN "" ELSE IF pretty_print THEN ",\n" ELSE ","
        lead == IF pretty_print THEN Join(Spaces(new_indent)) ELSE ""
        close(bracket) ==
            IF pretty_print
            THEN "\n" \o Join(Spaces(current_indent)) \o bracket
            ELSE bracket
        colon == IF pretty_print THEN ": " ELSE ":"
    IN  IF v.t = "null" THEN "null"
        ELSE IF v.t = "string" THEN Quoted(v.s)
        ELSE IF v.t = "array"
        THEN IF v.a = <<>> THEN "[]"
             ELSE open("[")
                  \o Join([ i \in 1..Len(v.a) |->
                              lead \o Dump(v.a[i], indent_step, new_indent)
                                   \o sep(i = Len(v.a)) ])
                  \o close("]")
        ELSE IF v.o = <<>> THEN "{}"
             ELSE open("{")
                  \o Join([ i \in 1..Len(v.o) |->
                              lead \o Quoted(v.o[i].key) \o colon
                                   \o Dump(v.o[i].val, indent_step, new_indent)
                                   \o sep(i = Len(v.o)) ])
                  \o close("}")

\* --------------------------------------------------- sql_escape (294-309)
\* The bytes of a std::string, as numbers.
Bytes(str) == [ i \in 1..Len(str) |-> Code(At(str, i)) ]

\* Mutant of EscapeByte: the zero byte is copied.
EscapeByte_NoNul(c) ==
    IF c = 92 THEN << 92, 92 >>
    ELSE IF c = 39 THEN << 92, 39 >>
    ELSE IF c = 10 THEN << 92, 110 >>
    ELSE IF c = 13 THEN << 92, 114 >>
    ELSE IF c = 9 THEN << 92, 116 >>
    ELSE << c >>

\* Mutant of EscapeByte: the backslash is copied, not doubled.
EscapeByte_BackslashKept(c) ==
    IF c = 39 THEN << 92, 39 >>
    ELSE IF c = 10 THEN << 92, 110 >>
    ELSE IF c = 13 THEN << 92, 114 >>
    ELSE IF c = 9 THEN << 92, 116 >>
    ELSE IF c = 0 THEN << 92, 48 >>
    ELSE << c >>

\* Lines 298-306: the switch. 92 is the backslash, 39 the single quote, 10
\* the line feed, 13 the carriage return, 9 the tab, 0 the zero byte; 110,
\* 114, 116 and 48 are the letters n, r, t and the digit 0.
EscapeByte(c) ==
    IF c = 92 THEN << 92, 92 >>
    ELSE IF c = 39 THEN << 92, 39 >>
    ELSE IF c = 10 THEN << 92, 110 >>
    ELSE IF c = 13 THEN << 92, 114 >>
    ELSE IF c = 9 THEN << 92, 116 >>
    ELSE IF c = 0 THEN << 92, 48 >>
    ELSE << c >>

\* Lines 295-308: what the switch gives for each byte, in the order of the
\* bytes. (The string is taken in two halves, so that the evaluation does
\* not nest as deep as the string is long.)
RECURSIVE sql_escape(_)
sql_escape(str) ==
    IF str = <<>> THEN <<>>
    ELSE IF Len(str) = 1 THEN EscapeByte(str[1])
    ELSE LET half == Len(str) \div 2
         IN  sql_escape(SubSeq(str, 1, half))
                 \o sql_escape(SubSeq(str, half + 1, Len(str)))

\* Lines 324-329; 96 is the backquote.
mysql_write_insert(table, tag, str) ==
    Bytes("INSERT INTO ") \o << 96 >> \o Bytes(table) \o << 96 >>
        \o Bytes("(") \o << 96 >> \o Bytes("tag") \o << 96 >>
        \o Bytes(",") \o << 96 >> \o Bytes("json") \o << 96 >>
        \o Bytes(") VALUES('") \o sql_escape(Bytes(tag))
        \o Bytes("', CAST('") \o sql_escape(Bytes(str))
        \o Bytes("' AS JSON));\n")

\* ------------------------------------------------------ sample records
\* Text nodes: blank text, text, and text with a line feed inside and
\* blanks around it.
Texts == { Text(" "), Text("h'i"), Text(" h\ni\n") }

\* Elements without element children: empty, with text, and with an
\* attribute and text.
Leaves ==
    { Element(name, c[1], c[2]) :
        name \in {"a", "z"},
        c \in { << <<>>, <<>> >>,
                << <<>>, << Text("h'i") >> >>,
                << << Attr("id", "7") >>, << Text("h'i") >> >> } }

\* The lists of at most MaxKids children drawn from a set of nodes.
KidLists(nodes) == UNION { [1..n -> nodes] : n \in 0..MaxKids }

\* Records of a generic document.
Items ==
    { Element("item", attrs, kids) :
        attrs \in { <<>>, << Attr("id", "7") >>,
                    << Attr("k", ""), Attr("id", "7") >> },
        kids \in KidLists(Leaves \cup Texts) }

\* The children of the host elements of an Nmap report.
HostKids ==
    { Element("status", << Attr("state", "up") >>, <<>>),
      Element("address",
              << Attr("addr", "10.0.0.1"), Attr("addrtype", "ipv4") >>, <<>>),
      Element("address",
              << Attr("addr", "AA:BB"), Attr("addrtype", "mac"),
                 Attr("vendor", "V") >>, <<>>),
      Element("address", <<>>, <<>>),
      Element("hostnames", <<>>, <<>>),
      Element("hostnames", <<>>,
              << Element("hostname",
                         << Attr("name", "h"), Attr("type", "PTR") >>,
                         <<>>),
                 Element("hostname", <<>>, <<>>) >>),
      Element("ports", <<>>,
              << Element("port",
                         << Attr("protocol", "tcp"), Attr("portid", "80") >>,
                         << Element("state", << Attr("state", "open") >>, <<>>),
                            Element("service", << Attr("name", "http") >>,
                                    << Element("cpe", <<>>,
                                               << Text("cpe:/a") >>) >>),
                            Element("script", << Attr("id", "s") >>, <<>>) >>) >>),
      Element("hostscript", <<>>,
              << Element("script", << Attr("output", "o") >>, <<>>) >>),
      Element("uptime", << Attr("seconds", "5") >>, <<>>),
      Text("\n") }

\* Records of an Nmap report.
Hosts ==
    { Element("host", attrs, kids) :
        attrs \in { <<>>, << Attr("starttime", "1") >> },
        kids \in KidLists(HostKids) }

\* Arguments of sql_escape: the six bytes it rewrites and the letter a.
Args == UNION { [1..n -> {0, 9, 10, 13, 39, 92, 97, 110}] : n \in 0..MaxArg }

\* ---------------------------------------------- one record (523-550)
\* The command lines under which a record is followed: the record tag is
\* the name of the element (line 522).
RecordOptions(tag) ==
    [ mode : {"generic", "nmap"}, record_tag : {tag},
      format : {"jsonl", "mysql-sql"}, sqlite_batch : {1},
      sqlite_db : {""}, pretty : BOOLEAN ]

\* main() stands at line 523, inside the loop.
InLoopBody ==
    /\ WITH_SQLITE = TRUE
    /\ pc = "loop_body"
    /\ g_stop_requested = 0
    /\ doc = <<>>
    /\ pos = 0
    /\ ret = 1
    /\ out = <<>>
    /\ sqlite_buf = <<>>
    /\ sdb = EmptyDb
    /\ exit_code = -1
    /\ dispatched = <<>>
    /\ flushes = <<>>
    /\ reads = 0
    /\ stop_at = -1
    /\ stop_pc = "none"

mainvars == << WITH_SQLITE, opt, pc, g_stop_requested, doc, pos, ret, out,
               sqlite_buf, sdb, exit_code, dispatched, flushes, reads,
               stop_at, stop_pc >>

\* Either xmlTextReaderExpand has returned a record, or sql_escape is about
\* to be called on some bytes.
RecordInit ==
    /\ InLoopBody
    /\ json = NoJson
    /\ json_str = ""
    /\ written = <<>>
    /\ escaped = <<>>
    /\ \/ /\ node \in Items \cup Hosts
          /\ opt \in RecordOptions(node.name)
          /\ rpc = "map"
          /\ arg = <<>>
       \/ /\ node = NoNode
          /\ opt \in RecordOptions("")
          /\ opt.mode = "generic" /\ opt.format = "mysql-sql" /\ ~opt.pretty
          /\ rpc = "escape"
          /\ arg \in Args

\* Lines 525-532: the record is mapped. When the unwrapping of line 531
\* throws, nothing in main() catches the exception and the program ends in
\* std::terminate.
MapRecord ==
    /\ rpc = "map"
    /\ json' = IF UsesNmap(node.name) THEN nmap_host_to_obj(node)
               ELSE Unwrap(node_to_json(node))
    /\ rpc' = IF json' = TypeError THEN "terminate" ELSE "dump"
    /\ UNCHANGED << node, json_str, written, arg, escaped >>
    /\ UNCHANGED mainvars

\* Line 534.
tag_val_of(js) ==
    IF Contains(js, "_tag") THEN ValueAt(js, "_tag").s ELSE opt.record_tag

\* Line 533.
DumpRecord ==
    /\ rpc = "dump"
    /\ json_str' = IF opt.pretty THEN Dump(json, 2, 0) ELSE Dump(json, -1, 0)
    /\ rpc' = "write"
    /\ UNCHANGED << node, json, written, arg, escaped >>
    /\ UNCHANGED mainvars

\* Lines 546-550: the INSERT statement, or the line.
WriteRecord ==
    /\ rpc = "write"
    /\ written' = IF to_mysql
                  THEN mysql_write_insert("records", tag_val_of(json), json_str)
                  ELSE Bytes(json_str) \o Bytes("\n")
    /\ rpc' = "done"
    /\ UNCHANGED << node, json, json_str, arg, escaped >>
    /\ UNCHANGED mainvars

\* One call of sql_escape.
Escape ==
    /\ rpc = "escape"
    /\ escaped' = sql_escape(arg)
    /\ rpc' = "done"
    /\ UNCHANGED << node, json, json_str, written, arg >>
    /\ UNCHANGED mainvars

RecordNext ==
    \/ MapRecord
    \/ DumpRecord
    \/ WriteRecord
    \/ Escape

RecordSpec == RecordInit /\ [][RecordNext]_vars

\* =================================================================== claims
\* Shared vocabulary of the properties below.

\* main() has left the streaming loop and is on its way to return 0.
AfterLoop ==
    \/ pc \in {"final_flush", "postamble", "cleanup"}
    \/ pc = "exit" /\ exit_code = 0

\* The loop ended because the reader reported the end of the document.
StreamExhausted == AfterLoop /\ ret = 0

\* The flag was set before the loop was left: the loop condition saw it
\* set, or found the stream ended with the flag already set.
LoopCancelled ==
    /\ AfterLoop
    /\ g_stop_requested = 1
    /\ stop_pc \notin {"final_flush", "postamble", "cleanup"}

\* The run returned 0.
RunCompleted == pc = "exit" /\ exit_code = 0

\* The format names one of the writers of this build.
SupportedFormat == to_jsonl \/ to_mysql \/ to_sqlite

\* The elements of d named tag that lie in no other element named tag.
IsRecordStart(d, p, tag) ==
    NodeType(d[p]) = XML_READER_TYPE_ELEMENT /\ ConstName(d[p]) = tag
InsideRecord(d, p, tag) ==
    \E a \in 1..(p - 1) :
        IsRecordStart(d, a, tag) /\ IsOpen(d[a]) /\ SubtreeEnd(d, a) > p
TopRecordSet(d, tag) ==
    { p \in 1..Len(d) : IsRecordStart(d, p, tag) /\ ~InsideRecord(d, p, tag) }

RECURSIVE Ascending(_)
Ascending(S) ==
    IF S = {} THEN <<>>
    ELSE LET m == CHOOSE x \in S : \A y \in S : x <= y
         IN  <<m>> \o Ascending(S \ {m})

\* The records of the output, in order: lines, INSERT statements, or
\* committed rows.
RECURSIVE RecsOf(_)
RecsOf(o) ==
    IF o = <<>> THEN <<>>
    ELSE (IF o[1].kind \in {"line", "insert"} THEN << o[1].rec >> ELSE <<>>)
         \o RecsOf(Tail(o))
RowRecs(rows) == [ i \in 1..Len(rows) |-> rows[i][2] ]
OutputRecords == IF to_sqlite THEN RowRecs(sdb.committed) ELSE RecsOf(out)

\* C1: when the stream is exhausted, the records handed to the sink are
\* exactly the elements named like the record tag that lie in no other such
\* element, each once, in document order.
C1_DispatchesExactlyTopRecords ==
    (StreamExhausted /\ SupportedFormat)
        => dispatched = Ascending(TopRecordSet(doc, opt.record_tag))

\* C2: the flag is set between two iterations, after record k was dispatched
\* and while the stream still has nodes; no flush fails. Then the output of
\* the completed run holds exactly the first k records, whatever the format.
C2_CancelKeepsDispatchedRecords ==
    ( /\ RunCompleted
      /\ SupportedFormat
      /\ stop_pc = "loop_test"
      /\ stop_at >= 1
      /\ ret = 1
      /\ Failed(flushes) = {} )
        => /\ Len(dispatched) = stop_at
           /\ OutputRecords = dispatched

\* The same for the two writers that do not buffer.
CancelKeepsDispatchedRecordsUnbuffered ==
    ( /\ RunCompleted
      /\ to_jsonl \/ to_mysql
      /\ stop_pc = "loop_test"
      /\ ret = 1 )
        => /\ Len(dispatched) = stop_at
           /\ OutputRecords = dispatched

Min(a, b) == IF a <= b THEN a ELSE b
Range(q) == { q[i] : i \in 1..Len(q) }

\* C3: a run of the SQLite writer with no failing flush and no SIGINT, over
\* n dispatched records with batch size B, makes ceil(n/B) flushes, the i-th
\* holding records (i-1)B+1 .. min(iB, n), and commits all n rows in order.
C3_BatchedWriterFlushes ==
    ( /\ RunCompleted
      /\ to_sqlite
      /\ g_stop_requested = 0
      /\ Failed(flushes) = {} )
        => LET n == Len(dispatched)
               B == opt.sqlite_batch
           IN  /\ Len(flushes) = (n + B - 1) \div B
               /\ \A i \in 1..Len(flushes) :
                    RowRecs(flushes[i].rows) =
                        SubSeq(dispatched, (i - 1) * B + 1, Min(i * B, n))
               /\ RowRecs(sdb.committed) = dispatched

\* Witness of C3: a completed run with batch size 2 over three records, that
\* is a full batch and a last batch of one.
C3_Witness ==
    /\ RunCompleted
    /\ to_sqlite
    /\ g_stop_requested = 0
    /\ Failed(flushes) = {}
    /\ opt.sqlite_batch = 2
    /\ Len(dispatched) = 3
    /\ Len(flushes) = 2

\* C4: of every batch handed to sqlite_batch_insert, either all rows are
\* committed or none is.
C4_FlushAllOrNothing ==
    \A i \in 1..Len(flushes) :
        \/ Range(flushes[i].rows) \subseteq Range(sdb.committed)
        \/ Range(flushes[i].rows) \cap Range(sdb.committed) = {}

\* The run ended in std::terminate at the mapping of a record.
MapperThrew ==
    /\ pc = "exit"
    /\ exit_code = 134
    /\ AtRecord
    /\ TextOnlyRecord
    /\ \A i \in 1..Len(flushes) :
          Range(flushes[i].rows) \cap Range(sqlite_buf) = {}

\* C5: a failing flush does not stop the loop. No row is handed to
\* sqlite_batch_insert twice or kept in the buffer after its flush; a flush
\* that succeeds commits its rows, also after an earlier failure; and a run
\* that met a failing flush, but no SIGINT, no parse error and no exception
\* of the mapper, returns 0 with the stream read to its end.
C5_FlushFailureDoesNotStopLoop ==
    /\ \A i \in 1..Len(flushes) :
          /\ Range(flushes[i].rows) \cap Range(sqlite_buf) = {}
          /\ \A j \in (i + 1)..Len(flushes) :
                Range(flushes[i].rows) \cap Range(flushes[j].rows) = {}
          /\ flushes[i].result = "none"
                => Range(flushes[i].rows) \subseteq Range(sdb.committed)
    /\ ( /\ pc = "exit"
         /\ Failed(flushes) # {}
         /\ g_stop_requested = 0
         /\ ret # -1
         /\ ~MapperThrew )
          => /\ exit_code = 0
             /\ ret = 0
             /\ pos = Len(doc) + 1

\* Witness of C5: a completed run in which a flush of the loop threw and a
\* later flush committed its rows.
C5_Witness ==
    /\ RunCompleted
    /\ \E i \in 1..Len(flushes) :
          /\ flushes[i].result \in {"prepare", "step"}
          /\ flushes[i].where = "loop"
          /\ \E j \in (i + 1)..Len(flushes) :
                /\ flushes[j].result = "none"
                /\ flushes[j].where = "loop"

\* C6: the buffer never holds more than the batch size, and holds less than
\* the batch size whenever no write step is under way.
C6_BufferBound ==
    /\ Len(sqlite_buf) <= opt.sqlite_batch
    /\ pc # "batch_check" => Len(sqlite_buf) < opt.sqlite_batch

\* Witness of C6: after a failed flush, the buffer is full again in the
\* middle of a write step.
C6_Witness ==
    /\ pc = "batch_check"
    /\ Len(sqlite_buf) = opt.sqlite_batch
    /\ Failed(flushes) # {}

RECURSIVE Concat(_)
Concat(qq) == IF qq = <<>> THEN <<>> ELSE qq[1] \o Concat(Tail(qq))

\* C7: when the loop ended on the flag, finish makes no flush: every flush
\* of the run was made in the loop, no row of the buffer is committed, and
\* without failures the committed rows are the rows of those flushes.
C7_NoFinalFlushOnCancel ==
    ( /\ LoopCancelled
      /\ to_sqlite
      /\ pc \in {"postamble", "cleanup", "exit"} )
        => /\ \A i \in 1..Len(flushes) : flushes[i].where = "loop"
           /\ Range(sqlite_buf) \cap Range(sdb.committed) = {}
           /\ Failed(flushes) = {}
                => sdb.committed =
                     Concat([ i \in 1..Len(flushes) |-> flushes[i].rows ])

\* Witness of C7: a cancelled, completed run with committed rows and with a
\* row left in the buffer.
C7_Witness ==
    /\ RunCompleted
    /\ LoopCancelled
    /\ to_sqlite
    /\ sqlite_buf # <<>>
    /\ sdb.committed # <<>>

\* C8: once the preamble is written, the run ends with the postamble
\* written exactly once, as the last thing, and nothing is written before
\* the preamble.
C8_PreambleThenPostamble ==
    /\ (to_mysql /\ out # <<>>) => out[1] = Preamble
    /\ \A i \in 1..Len(out) : out[i] = Postamble => i = Len(out)
    /\ (pc = "exit" /\ out # <<>> /\ out[1] = Preamble)
          => out[Len(out)] = Postamble

\* C9: with an empty record tag nothing is read and nothing is written, and
\* the run ends with an error.
C9_EmptyRecordTagRefused ==
    (opt.record_tag = "" /\ opt.mode \in {"generic", "nmap"})
        => /\ reads = 0
           /\ out = <<>>
           /\ pc = "exit" => exit_code # 0

\* C10: with a format that names no writer nothing is read, and the run
\* ends with an error.
C10_UnsupportedFormatRefused ==
    ~SupportedFormat
        => /\ reads = 0
           /\ pc = "exit" => exit_code # 0

\* The flag was not set when the loop was left: SIGINT never arrived, or it
\* arrived after the loop condition had been found false.
LoopLeftUnstopped ==
    /\ AfterLoop
    /\ stop_pc \in {"none", "final_flush", "postamble", "cleanup"}

\* C11: once the reader has reported a stream error (-1) the loop is left
\* and no record is mapped or written any more; the completed run keeps
\* every record dispatched before the error: the lines or INSERT statements
\* in the output, the postamble after them, and, the flag not having been
\* set before the loop was left and no flush failing, the rows in the table.
C11_StreamErrorKeepsRecords ==
    /\ ret = -1 => pc \notin {"loop_body", "batch_check"}
    /\ (RunCompleted /\ ret = -1 /\ SupportedFormat)
          => /\ (to_jsonl \/ to_mysql) => RecsOf(out) = dispatched
             /\ to_mysql => out[Len(out)] = Postamble
             /\ (to_sqlite /\ LoopLeftUnstopped /\ Failed(flushes) = {})
                   => RowRecs(sdb.committed) = dispatched

\* The same for a run that no SIGINT reaches at all.
StreamErrorKeepsRecordsNoSignal ==
    /\ ret = -1 => pc \notin {"loop_body", "batch_check"}
    /\ (RunCompleted /\ ret = -1 /\ SupportedFormat)
          => /\ (to_jsonl \/ to_mysql) => RecsOf(out) = dispatched
             /\ to_mysql => out[Len(out)] = Postamble
             /\ (to_sqlite /\ g_stop_requested = 0 /\ Failed(flushes) = {})
                   => RowRecs(sdb.committed) = dispatched

\* Lines 541, 564, 579-580: what a run that has ended reports: the exit
\* status, the "[!] SQLite:" messages of the flushes that threw, and the
\* "[!] Interrupted." message.
Reported ==
    [ status |-> exit_code,
      sqlite |-> Cardinality({ i \in 1..Len(flushes) :
                                 flushes[i].result \in {"prepare", "step"} }),
      interrupted |-> g_stop_requested = 1 ]

\* What a run reports that read its whole input undisturbed.
CompleteReport == [ status |-> 0, sqlite |-> 0, interrupted |-> FALSE ]

\* C12: a run that read the whole input, with no SIGINT and no flush that
\* threw, reports status 0 and no message; a run whose loop was cancelled
\* reports the interruption; and a run whose loop ended on a stream error
\* does not report what the complete run reports.
C12_OutcomeDistinguishesEnding ==
    /\ ( /\ pc = "exit"
         /\ StreamExhausted
         /\ g_stop_requested = 0
         /\ \A i \in 1..Len(flushes) : flushes[i].result \in {"none", "commit"} )
          => Reported = CompleteReport
    /\ (pc = "exit" /\ LoopCancelled) => Reported.interrupted
    /\ (pc = "exit" /\ ret = -1) => Reported # CompleteReport

\* C20: the stream is exhausted and the flag was not set when the loop was
\* left; no flush fails. Then the completed run has committed every
\* dispatched record, whenever the flag is set afterwards.
C20_ExhaustedStreamFlushesAll ==
    ( /\ RunCompleted
      /\ to_sqlite
      /\ StreamExhausted
      /\ LoopLeftUnstopped
      /\ Failed(flushes) = {} )
        => /\ sqlite_buf = <<>>
           /\ RowRecs(sdb.committed) = dispatched

\* The loop body is about to run on an element named like the record tag.
RecordInFlight ==
    /\ pc = "loop_body"
    /\ pos \in 1..Len(doc)
    /\ IsRecordStart(doc, pos, opt.record_tag)

\* What the line or the INSERT writer has written for the i-th dispatched
\* record: one whole line, one whole statement.
WholeRecord(i) ==
    IF to_mysql
    THEN Insert(TagVal(ConstName(doc[dispatched[i]])), dispatched[i])
    ELSE Line(TagVal(ConstName(doc[dispatched[i]])), dispatched[i])

\* The rows handed to the SQLite writer so far: those of the flushes and
\* those in the buffer.
RowsHanded ==
    Concat([ i \in 1..Len(flushes) |-> flushes[i].rows ]) \o sqlite_buf

\* The states through which C21 holds: at most one record is dispatched
\* after the flag was set; the output of the line and the INSERT writer is
\* the preamble, one whole line or statement for every dispatched record,
\* and the postamble, and nothing else; and once the loop has acted upon
\* the flag, every dispatched record has been handed to the SQLite writer
\* and no full buffer waits for its flush.
WholeRecordsOnly ==
    /\ g_stop_requested = 1 => Len(dispatched) <= stop_at + 1
    /\ (to_jsonl \/ to_mysql)
          => SelectSeq(out, LAMBDA w : w.kind \in {"line", "insert"})
               = [ i \in 1..Len(dispatched) |-> WholeRecord(i) ]
    /\ (to_sqlite /\ LoopCancelled)
          => /\ RowRecs(RowsHanded) = dispatched
             /\ Len(sqlite_buf) < opt.sqlite_batch

\* The steps through which C21 holds: with the flag set, the loop body at a
\* record still hands the record to the sink (unless the subtree cannot be
\* expanded or the mapper throws), and a full buffer is still flushed.
FlagDoesNotPreempt ==
    /\ (g_stop_requested = 1 /\ RecordInFlight /\ pc' # pc)
          => \/ dispatched' = Append(dispatched, pos)
             \/ ret' = -1
             \/ exit_code' = 134
    /\ ( /\ g_stop_requested = 1
         /\ pc = "batch_check"
         /\ pc' # pc
         /\ Len(sqlite_buf) >= opt.sqlite_batch )
          => /\ Len(flushes') = Len(flushes) + 1
             /\ flushes'[Len(flushes')].rows = sqlite_buf

\* C21: the flag does not pre-empt a record. A record whose iteration has
\* begun when the flag is set is handed to its sink completely before the
\* loop condition reads the flag, at most one record is written after the
\* flag was set, and the output of the line and the INSERT writer holds
\* whole records only.
C21_CancelIsAdvisory == []WholeRecordsOnly /\ [][FlagDoesNotPreempt]_vars

\* Witness of C21: the flag was set while the loop body stood at a record,
\* and the completed run has written that record after it.
C21_Witness ==
    /\ RunCompleted
    /\ to_mysql
    /\ stop_pc = "loop_body"
    /\ stop_at >= 1
    /\ Len(dispatched) = stop_at + 1
    /\ out[Len(out) - 1] = WholeRecord(Len(dispatched))

\* The positions of main() inside the extraction loop (lines 516-559).
LoopPcs == {"loop_test", "loop_body", "batch_check"}

\* The steps through which C22 holds: an iteration that returns to the loop
\* condition has moved the reader forward, beyond the whole subtree when it
\* stood at a record, or has left the reader in its error state, which ends
\* the loop at the next test.
IterationAdvances ==
    (pc \in {"loop_body", "batch_check"} /\ pc' = "loop_test")
       => \/ ret' = -1
          \/ /\ ret' \in {0, 1}
             /\ pos' > pos
             /\ IsRecordStart(doc, pos, opt.record_tag)
                   => pos' > SubtreeEnd(doc, pos)

\* The states through which C22 holds: while the reader answers 1 it stands
\* on a token of the document; the loop is left with the stream exhausted
\* (Done), with the flag seen by the loop condition (Cancelled), or with the
\* reader in its error state.
LoopMeasure ==
    /\ pos <= Len(doc) + 1
    /\ (pc \in LoopPcs /\ ret = 1) => pos \in 1..Len(doc)
    /\ (pc \in LoopPcs /\ ret = 0) => pos = Len(doc) + 1
    /\ AfterLoop
          => \/ ret = 0 /\ pos = Len(doc) + 1
             \/ ret = 1 /\ LoopCancelled
             \/ ret = -1

\* C22: the extraction loop terminates on every document. Every iteration
\* moves the reader forward by at least one token, a record by more than its
\* subtree, also when the subtree cannot be expanded or a flush fails; the
\* loop is left in Done when the stream is exhausted and in Cancelled when
\* the loop condition has seen the flag.
C22_LoopTerminates ==
    /\ []LoopMeasure
    /\ [][IterationAdvances]_vars
    /\ (pc \in LoopPcs) ~> (pc \notin LoopPcs)

\* Witness of C22: the loop ran on a document with a record of several
\* tokens whose flush failed, and has been left with the stream exhausted.
C22_Witness ==
    /\ RunCompleted
    /\ StreamExhausted
    /\ \E i \in 1..Len(dispatched) : SubtreeEnd(doc, dispatched[i]) > dispatched[i]
    /\ \E i \in 1..Len(flushes) : flushes[i].where = "loop" /\ flushes[i].result # "none"

\* ------------------------------------------------------- claims on records
\* A record has been mapped by the generic mapper, by the host normalizer.
Mapped == node # NoNode /\ rpc \in {"terminate", "dump", "write", "done"}
MappedGeneric == Mapped /\ ~UsesNmap(node.name)
MappedHost == Mapped /\ UsesNmap(node.name)

\* C13: what a matched record is mapped to, by either mapper, is an object
\* whose member "_tag" is the name of the element, and the tag label handed
\* to the writer is that name too.
C13_RecordCarriesTag ==
    Mapped
        => /\ json.t = "object"
           /\ Contains(json, "_tag")
           /\ ValueAt(json, "_tag") = JString(node.name)
           /\ tag_val_of(json) = node.name

\* The same for the records that have an attribute, an element inside, or
\* no text but blanks.
RecordCarriesTagUnlessTextOnly ==
    ( /\ Mapped
      /\ \/ node.attrs # <<>>
         \/ ElementKids(node) # <<>>
         \/ Trimmed(xmlNodeGetContent(node)) = <<>> )
        => /\ json.t = "object"
           /\ ValueAt(json, "_tag") = JString(node.name)
           /\ tag_val_of(json) = node.name

\* The set of the keys of an object.
KeySet(v) == { v.o[i].key : i \in 1..Len(v.o) }

\* The text nodes that are children of the element itself, joined.
DirectText(n) ==
    Join([ i \in 1..Len(n.kids) |->
             IF n.kids[i].type = "text" THEN n.kids[i].content ELSE "" ])

\* The keys the element is to have: one for every attribute, one for every
\* name among its element children, and "#text" when the given text is
\* not blank.
KeysFor(n, txt) ==
    { "@" \o n.attrs[i].name : i \in 1..Len(n.attrs) }
        \cup { ElementKids(n)[i].name : i \in 1..Len(ElementKids(n)) }
        \cup (IF Trimmed(txt) # <<>> THEN {"#text"} ELSE {})

\* What an element is mapped to, without the wrapping.
MappedValue(n) == ValueAt(node_to_json(n), n.name)

\* The record and the elements inside it that have an attribute or an
\* element child.
WithAttrOrChild ==
    { n \in {node} \cup { ElementKids(node)[i] :
                            i \in 1..Len(ElementKids(node)) } :
        n.attrs # <<>> \/ ElementKids(n) # <<>> }

\* C14: an element with an attribute or an element child is mapped to an
\* object whose keys are "@a" for every attribute a, the names of its
\* element children, and "#text" exactly when its own text is not blank;
\* the record has these keys and "_tag".
C14_KeySetOfElement ==
    MappedGeneric
        => /\ \A n \in WithAttrOrChild :
                 /\ MappedValue(n).t = "object"
                 /\ KeySet(MappedValue(n)) = KeysFor(n, DirectText(n))
           /\ node \in WithAttrOrChild
                 => KeySet(json) = KeysFor(node, DirectText(node)) \cup {"_tag"}

\* The same with the text of the element and of everything inside it in
\* place of its own text.
KeySetWithAllText ==
    MappedGeneric
        => /\ \A n \in WithAttrOrChild :
                 /\ MappedValue(n).t = "object"
                 /\ KeySet(MappedValue(n)) = KeysFor(n, xmlNodeGetContent(n))
           /\ node \in WithAttrOrChild
                 => KeySet(json) =
                        KeysFor(node, xmlNodeGetContent(node)) \cup {"_tag"}

\* C15: for every name among the element children of a record, the member
\* of that name is what the child is mapped to when one child has the name,
\* and the array of what the children are mapped to, in document order,
\* when several have it.
C15_SingleOrArray ==
    (MappedGeneric /\ ElementKids(node) # <<>>)
        => \A k \in 1..Len(ElementKids(node)) :
              LET name == ElementKids(node)[k].name
                  cs == KidsNamed(node, name)
              IN  /\ Contains(json, name)
                  /\ Len(cs) = 1 => ValueAt(json, name) = MappedValue(cs[1])
                  /\ Len(cs) >= 2
                        => /\ ValueAt(json, name).t = "array"
                           /\ Len(ValueAt(json, name).a) = Len(cs)
                           /\ \A i \in 1..Len(cs) :
                                 ValueAt(json, name).a[i] = MappedValue(cs[i])

\* Witness of C15: a record with two children of one name that are mapped
\* to different values.
C15_Witness ==
    /\ MappedGeneric
    /\ rpc = "done"
    /\ Len(KidsNamed(node, "a")) = 2
    /\ MappedValue(KidsNamed(node, "a")[1]) # MappedValue(KidsNamed(node, "a")[2])

\* The six bytes sql_escape rewrites, and the letter each gets after the
\* backslash.
SixBytes == {92, 39, 10, 13, 9, 0}
LetterOf(c) ==
    IF c = 10 THEN 110
    ELSE IF c = 13 THEN 114
    ELSE IF c = 9 THEN 116
    ELSE IF c = 0 THEN 48
    ELSE c

\* C16: sql_escape copies every byte but the six, for which it writes a
\* backslash and a letter, in the order of the input; the result is longer
\* than the argument by the number of those bytes in it; and a'b\c<LF>
\* becomes a\'b\\c\n.
C16_SqlEscapeExact ==
    /\ (rpc = "done" /\ node = NoNode)
          => /\ Len(escaped) = Len(arg)
                   + Cardinality({ i \in 1..Len(arg) : arg[i] \in SixBytes })
             /\ \A i \in 1..Len(arg) :
                   LET at == i + Cardinality({ k \in 1..(i - 1) :
                                                 arg[k] \in SixBytes })
                   IN  IF arg[i] \in SixBytes
                       THEN /\ escaped[at] = 92
                            /\ escaped[at + 1] = LetterOf(arg[i])
                       ELSE escaped[at] = arg[i]
    /\ sql_escape(Bytes("a'b\\c\n")) = Bytes("a\\'b\\\\c\\n")

\* Witness of C16: an escaped argument with a zero byte, a quote and a
\* letter in it.
C16_Witness ==
    /\ rpc = "done"
    /\ node = NoNode
    /\ arg = << 0, 39, 97 >>

\* C17: a host with address children gets the member "addresses", an array
\* with one entry for each of them in document order, and a host without
\* gets no such member; a host without hostname entries gets no member
\* "hostnames".
C17_AddressesAndHostnames ==
    MappedHost
        => LET as == KidsNamed(node, "address")
               hs == KidsNamed(node, "hostnames")
           IN  /\ json.t = "object"
               /\ as = <<>> => ~Contains(json, "addresses")
               /\ as # <<>>
                    => /\ Contains(json, "addresses")
                       /\ ValueAt(json, "addresses").t = "array"
                       /\ Len(ValueAt(json, "addresses").a) = Len(as)
                       /\ \A i \in 1..Len(as) :
                             LET e == ValueAt(json, "addresses").a[i]
                                 has == { k \in {"addr", "addrtype", "vendor"} :
                                            xmlGetProp(as[i], k) # <<>> }
                             IN  /\ has = {} => e = JNull
                                 /\ has # {}
                                      => /\ e.t = "object"
                                         /\ KeySet(e) = has
                                         /\ \A k \in has :
                                              ValueAt(e, k) =
                                                JString(xmlGetProp(as[i], k)[1])
               /\ (\A i \in 1..Len(hs) : KidsNamed(hs[i], "hostname") = <<>>)
                    => ~Contains(json, "hostnames")

\* Witness of C17: a host with two different address children, and with a
\* hostnames child that has no entry.
C17_Witness ==
    /\ MappedHost
    /\ rpc = "done"
    /\ Len(KidsNamed(node, "address")) = 2
    /\ KidsNamed(node, "address")[1] # KidsNamed(node, "address")[2]

\* The number of line feeds among some bytes.
Newlines(bytes) == Cardinality({ i \in 1..Len(bytes) : bytes[i] = 10 })

\* C18: the line writer puts one line on the output for a record, with
\* --pretty and without: what it writes has exactly one line feed, at its
\* end.
C18_OneLinePerRecord ==
    (rpc = "done" /\ node # NoNode /\ to_jsonl)
        => /\ Newlines(written) = 1
           /\ written[Len(written)] = 10

\* The same without --pretty.
OneLinePerRecordCompact ==
    (rpc = "done" /\ node # NoNode /\ to_jsonl /\ ~opt.pretty)
        => /\ Newlines(written) = 1
           /\ written[Len(written)] = 10

\* The names of the element children, each once, in the order in which
\* they are first seen.
RECURSIVE FirstSeen(_, _)
FirstSeen(kids, seen) ==
    IF kids = <<>> THEN seen
    ELSE FirstSeen(Tail(kids),
                   IF \E i \in 1..Len(seen) : seen[i] = Head(kids).name
                   THEN seen
                   ELSE Append(seen, Head(kids).name))

\* C19: the keys that are names of element children stand in the mapped
\* object in the order in which the names are first seen in the document.
C19_KeysInDocumentOrder ==
    (MappedGeneric /\ json.t = "object")
        => SelectSeq(Keys(json),
                     LAMBDA key : \E i \in 1..Len(ElementKids(node)) :
                                     ElementKids(node)[i].name = key)
             = FirstSeen(ElementKids(node), <<>>)

\* The same keys stand in ascending order of their bytes.
KeysInByteOrder ==
    (Mapped /\ json.t = "object")
        => \A i \in 1..(Len(json.o) - 1) :
              StrLess(json.o[i].key, json.o[i + 1].key)

\* The byte an escape letter stands for when a reader undoes the escape.
ByteOf(l) ==
    IF l = 110 THEN 10
    ELSE IF l = 114 THEN 13
    ELSE IF l = 116 THEN 9
    ELSE IF l = 48 THEN 0
    ELSE l

\* The number of backslashes that stand in e right before position i.
BackslashesBefore(e, i) ==
    CHOOSE k \in 0..(i - 1) :
        /\ \A j \in (i - k)..(i - 1) : e[j] = 92
        /\ k = i - 1 \/ e[i - k - 1] # 92

\* Position i of e is where a left-to-right scan finds the first byte of a
\* two-byte escape: a backslash after an even number of backslashes.
StartsEscape(e, i) ==
    /\ i \in 1..Len(e)
    /\ e[i] = 92
    /\ BackslashesBefore(e, i) % 2 = 0

\* e scanned left to right from i with every escape undone.
RECURSIVE Unescape(_, _)
Unescape(e, i) ==
    IF i > Len(e) THEN <<>>
    ELSE IF e[i] = 92 /\ i < Len(e)
         THEN << ByteOf(e[i + 1]) >> \o Unescape(e, i + 2)
         ELSE << e[i] >> \o Unescape(e, i + 1)

\* The quotes of e that no escape covers: those that end or begin a literal.
BareQuotes(e) ==
    { i \in 1..Len(e) : e[i] = 39 /\ ~StartsEscape(e, i - 1) }

\* The image of every sample argument.
EscapeOf == [ a \in Args |-> sql_escape(a) ]

\* C23: sql_escape is reversible and injective. Undoing the two-byte escapes
\* of its output from left to right gives the argument back, no other
\* argument has the same output, every escape of the output is one of the
\* six, and every quote of the output is the second byte of an escape. So
\* the INSERT statement of a record has four quotes that delimit a literal,
\* those around the tag and around the JSON text, and one line feed, its
\* last byte.
C23_SqlEscapeReversible ==
    /\ (rpc = "done" /\ node = NoNode)
          => /\ Unescape(escaped, 1) = arg
             /\ Len(arg) < MaxArg
                   => \A other \in Args : EscapeOf[other] = escaped => other = arg
             /\ \A i \in 1..Len(escaped) :
                   StartsEscape(escaped, i)
                      => /\ i < Len(escaped)
                         /\ escaped[i + 1] \in {92, 39, 110, 114, 116, 48}
             /\ BareQuotes(escaped) = {}
             /\ \A i \in 1..Len(escaped) : escaped[i] \notin {0, 9, 10, 13}
    /\ (rpc = "done" /\ node # NoNode /\ opt.format = "mysql-sql")
          => /\ Cardinality(BareQuotes(written)) = 4
             /\ Newlines(written) = 1
             /\ written[Len(written)] = 10

\* Witness of C23: the statement of a record with a quote in its text and
\* line feeds in its pretty JSON, both escaped.
C23_Witness ==
    /\ rpc = "done"
    /\ node # NoNode
    /\ opt.format = "mysql-sql"
    /\ opt.pretty
    /\ \E i \in 2..Len(written) : written[i] = 39 /\ written[i - 1] = 92
    /\ \E i \in 2..Len(written) : written[i] = 110 /\ written[i - 1] = 92

====
